---- MODULE Spec2Model ----
(***************************************************************************)
(* TreeMemory (src/utils/memory.rs): a tree memory populated on demand.    *)
(*                                                                         *)
(* The model keeps the structure of the source and scales its widths:      *)
(* TLC's integers are 32 bits wide, so the 64-bit address of the source    *)
(* becomes an address of WordBits bits, cut exactly as the source cuts it: *)
(* four groups of bits_per_segment bits on top of mem_bits low bits.       *)
(*   source:  bits_per_segment = 12, mem_bits = 64 - 12 * 4 = 16           *)
(*   model:   bits_per_segment = 1,  mem_bits = WordBits - 1 * 4 = 2       *)
(* max_depth is the source's 5.  mem_bits > bits_per_segment in both.      *)
(***************************************************************************)
EXTENDS Integers, Sequences, FiniteSets, TLC

\* ------------------------------------------------------------- bounds

\* Bits supplied by each level of the tree (12 in the source).
bits_per_segment == 1

\* Bits of the offset inside a leaf (16 in the source).
LeafBits == 2

\* Number of operations in one run.
MaxOps == 2

\* Longest buffer handed to an operation.
MaxLen == 2

\* ---------------------------------------------------- layout constants

\* How deep is the tree?
max_depth == 5

\* Width of an address: the literal 64 of the source, scaled.
WordBits == (bits_per_segment * 4) + LeafBits

\* Bits in an end index.
mem_bits == WordBits - (bits_per_segment * 4)

\* ------------------------------------------------------ u64 arithmetic

Shl1(n) == 2 ^ n

Shr(x, n) == x \div (2 ^ n)

RECURSIVE BitAnd(_, _)
BitAnd(x, y) ==
    IF x = 0 \/ y = 0
    THEN 0
    ELSE ((x % 2) * (y % 2)) + 2 * BitAnd(x \div 2, y \div 2)

\* ------------------------------------------------------- MemorySegment

Nothing == [tag |-> "Nothing", kids |-> <<>>, mem |-> <<>>]

\* new_memory with the shift left out: mem_bits words instead of 2^mem_bits.
new_memory_unshifted(bits) ==
    [tag |-> "Memory", kids |-> <<>>, mem |-> [i \in 1..bits |-> 0]]

new_memory(bits) ==
    [tag |-> "Memory", kids |-> <<>>, mem |-> [i \in 1..Shl1(bits) |-> 0]]

new_segment(seg_bits) ==
    [tag |-> "Next", kids |-> [i \in 1..Shl1(seg_bits) |-> Nothing], mem |-> <<>>]

\* ------------------------------------------------------ TreeMemory::run_op

shift(level) == WordBits - (bits_per_segment * level)

mask == Shl1(bits_per_segment) - 1

\* level_idx with the shift left out.
level_idx_unshifted(address, level) == BitAnd(address, mask)

level_idx(address, level) == BitAnd(Shr(address, shift(level)), mask)

final_idx(address) == BitAnd(address, Shl1(mem_bits) - 1)

\* read_copy with final_idx left out: the copy starts at word 0 of the leaf.
read_copy_from_start(src, fin, iovec) ==
    [i \in 1..Len(iovec) |-> IF i <= Len(src) THEN src[i] ELSE iovec[i]]

\* read_copy that zeroes the elements the leaf has no word for.
read_copy_zero_rest(src, fin, iovec) ==
    [i \in 1..Len(iovec) |-> IF fin + i <= Len(src) THEN src[fin + i] ELSE 0]

\* for (dst_i, src_i) in iovec.iter_mut().zip(src[final_idx..])
read_copy(src, fin, iovec) ==
    [i \in 1..Len(iovec) |->
        IF fin + i <= Len(src) THEN src[fin + i] ELSE iovec[i]]

\* write_copy into a fresh vector: the words outside the copy become 0.
write_copy_clearing(dst, fin, iovec) ==
    [j \in 1..Len(dst) |->
        IF j > fin /\ j - fin <= Len(iovec) THEN iovec[j - fin] ELSE 0]

\* for (dst_i, src_i) in dst[final_idx..].iter_mut().zip(iovec)
write_copy(dst, fin, iovec) ==
    [j \in 1..Len(dst) |->
        IF j > fin /\ j - fin <= Len(iovec) THEN iovec[j - fin] ELSE dst[j]]

\* write_memory that releases a leaf whose words are all zero after the copy.
write_memory_compacting(parent, fin, iovec) ==
    IF \A j \in 1..Len(parent.mem) : write_copy(parent.mem, fin, iovec)[j] = 0
    THEN Nothing
    ELSE [parent EXCEPT !.mem = write_copy(parent.mem, fin, iovec)]

\* The Memory arm of a Write: the leaf after the copy.
write_memory(parent, fin, iovec) ==
    [parent EXCEPT !.mem = write_copy(parent.mem, fin, iovec)]

\* fault_in that does not look at the operation: a Read faults in too.
fault_in_any_op(op, parent) == parent.tag = "Nothing"

\* The value of fault_in that the match yields.
fault_in(op, parent) == op = "Write" /\ parent.tag = "Nothing"

\* fault_node that makes the leaf one level below max_depth, not above it.
fault_node_deeper(level) ==
    IF level = max_depth + 1
    THEN new_memory(mem_bits)
    ELSE new_segment(mem_bits)

\* The node that replaces parent when faulting in.
fault_node(level) ==
    IF level = max_depth - 1
    THEN new_memory(mem_bits)
    ELSE new_segment(mem_bits)

\* shift is a u32 and the operand of >> on a u64: the subtraction must not
\* go below 0 and the shift must stay below the width of the address.
shift_ok(level) == shift(level) >= 0 /\ shift(level) < WordBits

\* replace_borrows that keeps the borrow of parent taken for the match.
replace_borrows_held(level) == 1..level

\* The levels whose node is borrowed when the call on level replaces its
\* parent: each caller holds parent.borrow() across its recursive call, and
\* the borrow this call took for the match ended with the let statement.
replace_borrows(level) == 1..(level - 1)

\* What one call of run_op met: its level, the variant of parent and the
\* number of children or words of parent.
Met(parent, level) ==
    [level |-> level, tag |-> parent.tag, size |-> Len(parent.kids) + Len(parent.mem)]

\* A call that panics: the node stays as it is and the request is abandoned.
Panic(parent, iovec, level) ==
    [node |-> parent, iovec |-> iovec, path |-> <<>>, allocs |-> 0,
     steps |-> <<Met(parent, level)>>, ok |-> FALSE]

\* The result carries the node as the call leaves it, the caller's buffer,
\* the child indices used on the way down, the number of nodes replaced,
\* what each call met, in the order of the calls, and whether no call
\* panicked.
RECURSIVE run_op(_, _, _, _, _)
run_op(parent, address, iovec, op, level) ==
    IF ~shift_ok(level)
    THEN Panic(parent, iovec, level)
    ELSE
    LET idx == level_idx(address, level)
        fin == final_idx(address)
        met == <<Met(parent, level)>>
        matched ==
            CASE parent.tag = "Nothing" ->
                    [node |-> parent, iovec |-> iovec, path |-> <<>>, allocs |-> 0,
                     steps |-> met, ok |-> TRUE]
              [] parent.tag = "Next" ->
                    IF idx >= Len(parent.kids)
                    THEN Panic(parent, iovec, level)
                    ELSE
                    LET r == run_op(parent.kids[idx + 1], address, iovec, op, level + 1)
                    IN  [node |-> [parent EXCEPT !.kids[idx + 1] = r.node],
                         iovec |-> r.iovec,
                         path |-> <<idx>> \o r.path,
                         allocs |-> r.allocs,
                         steps |-> met \o r.steps,
                         ok |-> r.ok]
              [] parent.tag = "Memory" ->
                    IF fin > Len(parent.mem)
                    THEN Panic(parent, iovec, level)
                    ELSE IF op = "Read"
                    THEN [node |-> parent,
                          iovec |-> read_copy(parent.mem, fin, iovec),
                          path |-> <<>>, allocs |-> 0, steps |-> met, ok |-> TRUE]
                    ELSE [node |-> write_memory(parent, fin, iovec),
                          iovec |-> iovec,
                          path |-> <<>>, allocs |-> 0, steps |-> met, ok |-> TRUE]
    IN  IF fault_in(op, parent)
        THEN IF level \in replace_borrows(level)
             THEN Panic(parent, iovec, level)
             ELSE LET r == run_op(fault_node(level), address, iovec, op, level)
                  IN  [r EXCEPT !.allocs = r.allocs + 1, !.steps = met \o r.steps]
        ELSE matched

iop(rt, address, iovec, op) == run_op(rt, address, iovec, op, 1)

\* ------------------------------------------------- Access for TreeMemory

\* read that starts from a buffer of ones.
read_dirty(rt, loc, span) == iop(rt, loc, [i \in 1..span |-> 1], "Read")

read(rt, loc, span) == iop(rt, loc, [i \in 1..span |-> 0], "Read")

write(rt, loc, contents) == iop(rt, loc, contents, "Write")

read_64(rt, loc) == read(rt, loc, 1)

\* write_64 that hands write a buffer of two words.
write_64_two_words(rt, loc, val) == write(rt, loc, <<val, val>>)

write_64(rt, loc, val) == write(rt, loc, <<val>>)

\* -------------------------------------------------------------- inputs

\* Addresses at the edges of the layout: the first and last word of a leaf,
\* one address per level with only that level's lowest bit set, and the
\* lowest and highest address.
Addresses ==
    {0, 1, Shl1(mem_bits) - 1, Shl1(WordBits) - 1}
        \cup {Shl1(shift(l)) : l \in 1..max_depth}

\* Buffers: all zero, or the ramp 1, 2, .., n.
Bufs ==
    {[i \in 1..n |-> 0] : n \in 1..MaxLen} \cup {[i \in 1..n |-> i] : n \in 1..MaxLen}

Words == {0, 1}

\* --------------------------------------------------------------- state

VARIABLES root, call, op, address, arg, iovec, ret, path, allocs, steps, ok, nops

vars == <<root, call, op, address, arg, iovec, ret, path, allocs, steps, ok, nops>>

Init ==
    /\ root = Nothing
    /\ call = "new"
    /\ op = "None"
    /\ address = 0
    /\ arg = <<>>
    /\ iovec = <<>>
    /\ ret = <<>>
    /\ path = <<>>
    /\ allocs = 0
    /\ steps = <<>>
    /\ ok = TRUE
    /\ nops = 0

\* The state an operation leaves: the tree, what was called with which
\* arguments, the caller's buffer after the call, the value returned and
\* what the calls of run_op met.
Commit(name, o, a, buf, r, returned) ==
    /\ root' = r.node
    /\ call' = name
    /\ op' = o
    /\ address' = a
    /\ arg' = buf
    /\ iovec' = r.iovec
    /\ ret' = returned
    /\ path' = r.path
    /\ allocs' = r.allocs
    /\ steps' = r.steps
    /\ ok' = r.ok
    /\ nops' = nops + 1

Iop ==
    \E a \in Addresses, buf \in Bufs, o \in {"Read", "Write"} :
        /\ nops < MaxOps
        /\ Commit("iop", o, a, buf, iop(root, a, buf, o), <<>>)

Read ==
    \E loc \in Addresses, span \in 1..MaxLen :
        /\ nops < MaxOps
        /\ Commit("read", "Read", loc, [i \in 1..span |-> 0],
                  read(root, loc, span), read(root, loc, span).iovec)

Write ==
    \E loc \in Addresses, contents \in Bufs :
        /\ nops < MaxOps
        /\ Commit("write", "Write", loc, contents, write(root, loc, contents), <<>>)

Read64 ==
    \E loc \in Addresses :
        /\ nops < MaxOps
        /\ Commit("read_64", "Read", loc, <<0>>,
                  read_64(root, loc), <<read_64(root, loc).iovec[1]>>)

Write64 ==
    \E loc \in Addresses, val \in Words :
        /\ nops < MaxOps
        /\ Commit("write_64", "Write", loc, <<val>>, write_64(root, loc, val), <<>>)

Next == Iop \/ Read \/ Write \/ Read64 \/ Write64

Spec == Init /\ [][Next]_vars

\* ----------------------------------------------------- tree observers

\* The leaf-sized address region an address lies in.
region(a) == Shr(a, mem_bits)

\* The request of n words at address a lies within one leaf.
Fits(a, n) == final_idx(a) + n <= Shl1(mem_bits)

\* The ranges [a1, a1 + n1) and [a2, a2 + n2) do not overlap.
Disjoint(a1, n1, a2, n2) == a1 + n1 <= a2 \/ a2 + n2 <= a1

\* The traversal for address a, started at node on level, ends at a leaf.
RECURSIVE Reaches(_, _, _)
Reaches(node, a, level) ==
    CASE node.tag = "Nothing" -> FALSE
      [] node.tag = "Memory" -> TRUE
      [] node.tag = "Next" -> Reaches(node.kids[level_idx(a, level) + 1], a, level + 1)

\* The leaf that traversal ends at.
RECURSIVE LeafOf(_, _, _)
LeafOf(node, a, level) ==
    IF node.tag = "Next"
    THEN LeafOf(node.kids[level_idx(a, level) + 1], a, level + 1)
    ELSE node

\* The tree without the contents of its leaves.
RECURSIVE Shape(_)
Shape(node) ==
    [tag |-> node.tag,
     kids |-> [i \in 1..Len(node.kids) |-> Shape(node.kids[i])],
     mem |-> [i \in 1..Len(node.mem) |-> 0]]

\* The numbers of children of the Next nodes of the tree.
RECURSIVE Fanouts(_)
Fanouts(node) ==
    IF node.tag = "Next"
    THEN {Len(node.kids)} \cup UNION {Fanouts(node.kids[i]) : i \in 1..Len(node.kids)}
    ELSE {}

\* The levels of the Memory nodes of the tree, the root being on level.
RECURSIVE LeafLevels(_, _)
LeafLevels(node, level) ==
    CASE node.tag = "Nothing" -> {}
      [] node.tag = "Memory" -> {level}
      [] node.tag = "Next" ->
            UNION {LeafLevels(node.kids[i], level + 1) : i \in 1..Len(node.kids)}

\* The numbers of words of the Memory nodes of the tree.
RECURSIVE LeafSizes(_)
LeafSizes(node) ==
    CASE node.tag = "Nothing" -> {}
      [] node.tag = "Memory" -> {Len(node.mem)}
      [] node.tag = "Next" -> UNION {LeafSizes(node.kids[i]) : i \in 1..Len(node.kids)}

\* No node of old has another variant in new, unless it was Nothing.
RECURSIVE Irreversible(_, _)
Irreversible(old, new) ==
    CASE old.tag = "Nothing" -> TRUE
      [] old.tag = "Memory" -> new.tag = "Memory"
      [] old.tag = "Next" ->
            /\ new.tag = "Next"
            /\ Len(new.kids) = Len(old.kids)
            /\ \A i \in 1..Len(old.kids) : Irreversible(old.kids[i], new.kids[i])

\* The addresses whose words a write of n words at address a stores.
Covered(a, n) == {a + (k - 1) : k \in {i \in 1..n : final_idx(a) + i <= Shl1(mem_bits)}}

\* new differs from old only along the path of address a: in a leaf only
\* the words fin + 1 .. fin + n may differ, a Next node keeps every child
\* off the path, and a node that stands where old had Nothing has nothing
\* but Nothing nodes and zero words off the path.
RECURSIVE Framed(_, _, _, _, _)
Framed(old, new, a, n, level) ==
    LET fin == final_idx(a)
        on == level_idx(a, level) + 1
        before == IF old.tag = "Nothing" THEN new_segment(mem_bits) ELSE old
        words == IF old.tag = "Nothing" THEN new_memory(mem_bits).mem ELSE old.mem
    IN  CASE new.tag = "Nothing" -> old.tag = "Nothing"
          [] new.tag = "Memory" ->
                /\ old.tag \in {"Nothing", "Memory"}
                /\ Len(new.mem) = Len(words)
                /\ \A j \in 1..Len(words) :
                      (j <= fin \/ j > fin + n) => new.mem[j] = words[j]
          [] new.tag = "Next" ->
                /\ old.tag \in {"Nothing", "Next"}
                /\ Len(new.kids) = Len(before.kids)
                /\ \A i \in 1..Len(new.kids) :
                      IF i = on
                      THEN Framed(before.kids[i], new.kids[i], a, n, level + 1)
                      ELSE new.kids[i] = before.kids[i]

\* -------------------------------------------------------------- claims

\* After a write that fits within one leaf, a read of as many words at the
\* same address would return the words written.
RoundTripState ==
    (op = "Write" /\ Fits(address, Len(arg)))
        => read(root, address, Len(arg)).iovec = arg

\* A read that follows such a write, at its address and of its length,
\* returns the words written.
RoundTripStep ==
    (/\ op = "Write"
     /\ Fits(address, Len(arg))
     /\ call' = "read"
     /\ address' = address
     /\ Len(ret') = Len(arg))
        => ret' = arg

\* C1: a write of v at a that fits within one leaf, followed by a read of
\* len(v) words at a, returns exactly v, whatever state the write found.
RoundTrip == []RoundTripState /\ [][RoundTripStep]_vars

RoundTripWitness ==
    /\ call = "read"
    /\ nops = 2
    /\ final_idx(address) = 2
    /\ ret = <<1, 2>>

\* C2: a write of a range within one leaf does not change the result of a
\* read of any range that does not overlap it.
Locality ==
    [][(op' = "Write" /\ nops' = nops + 1 /\ Fits(address', Len(arg')))
        => \A a2 \in Addresses, n \in 1..MaxLen :
              (Fits(a2, n) /\ Disjoint(address', Len(arg'), a2, n))
                  => read(root', a2, n).iovec = read(root, a2, n).iovec]_vars

\* C3: every Next node has exactly 2^bits_per_segment children, and a Next
\* node made by fault-in has only Nothing children.
FanOut ==
    /\ \A k \in Fanouts(root) : k = Shl1(bits_per_segment)
    /\ \A l \in 1..max_depth :
          fault_node(l).tag = "Next"
              => \A i \in 1..Len(fault_node(l).kids) : fault_node(l).kids[i] = Nothing

\* C4: every path from the root to a leaf has length max_depth: fault-in
\* makes a leaf exactly on level max_depth and a Next node on every level
\* below it.
LeafDepth ==
    root.tag # "Nothing"
        => /\ \A l \in LeafLevels(root, 1) : l = max_depth
           /\ \A l \in 1..max_depth : fault_node(l).tag = "Memory" <=> l = max_depth

\* C5: the level bits and the leaf bits partition the address exactly:
\* bits_per_segment * max_depth + mem_bits is the width of the address, and
\* a traversal to a leaf consumes every bit once.
LayoutPartition ==
    /\ (bits_per_segment * max_depth) + mem_bits = WordBits
    /\ (op = "Write" => (Len(path) * bits_per_segment) + mem_bits = WordBits)

\* C6: the traversal uses, on each level l of 1..max_depth, the child index
\* (address >> (64 - bits_per_segment * l)) & (fan_out - 1), and inside the
\* leaf the offset address & (leaf_size - 1).
Decomposition ==
    op = "Write"
        => /\ Len(path) = max_depth
           /\ \A l \in 1..Len(path) :
                 path[l] = BitAnd(Shr(address, WordBits - (bits_per_segment * l)),
                                  Shl1(bits_per_segment) - 1)
           /\ LeafOf(root, address, 1).mem[BitAnd(address, Shl1(mem_bits) - 1) + 1]
                 = arg[1]

\* C7: the tree holds a leaf for a leaf-sized region only if a write
\* addressed that region, and once it holds one, an operation on the
\* region creates no node.
Lazy ==
    [][/\ \A a \in Addresses :
             (Reaches(root', a, 1) /\ ~Reaches(root, a, 1))
                 => (op' = "Write" /\ region(address') = region(a))
       /\ (nops' = nops + 1 /\ Reaches(root, address', 1)) => allocs' = 0]_vars

\* C8: the second of two writes to one region that was unmapped before the
\* first creates no node and changes no node's variant.
IdempotentAlloc ==
    [][(/\ op = "Write"
        /\ op' = "Write"
        /\ nops' = nops + 1
        /\ region(address') = region(address))
          => /\ allocs' = 0
             /\ Shape(root') = Shape(root)]_vars

IdempotentAllocWitness ==
    /\ nops = 2
    /\ op = "Write"
    /\ allocs = 0
    /\ final_idx(address) = 1
    /\ arg = <<1, 2>>

\* C9: a Read leaves the whole tree as it was.
ReadNoAlloc ==
    [][(op' = "Read" /\ nops' = nops + 1) => (root' = root /\ allocs' = 0)]_vars

ReadNoAllocWitness ==
    /\ op = "Read"
    /\ root.tag = "Next"
    /\ ~Reaches(root, address, 1)

\* C10: the root starts as Nothing; a node that is a Next or a Memory keeps
\* its variant for ever, and the tree changes only during a Write.
Lifecycle ==
    /\ root = Nothing
    /\ [][/\ Irreversible(root, root')
          /\ root' # root => op' = "Write"]_vars

LifecycleWitness ==
    /\ nops = 2
    /\ op = "Write"
    /\ allocs = 0
    /\ arg = <<0>>
    /\ LeafOf(root, address, 1).tag = "Memory"

\* C11: a leaf has exactly 2^mem_bits words and is made all zero: after the
\* write that made it, every word of it that the write did not cover is 0
\* and reads as 0.
ZeroLeaf ==
    /\ \A n \in LeafSizes(root) : n = Shl1(mem_bits)
    /\ (op = "Write" /\ allocs > 0)
          => \A j \in 1..Shl1(mem_bits) :
                (j <= final_idx(address) \/ j > final_idx(address) + Len(arg))
                    => /\ LeafOf(root, address, 1).mem[j] = 0
                       /\ read_64(root, (address - final_idx(address)) + (j - 1)).iovec
                             = <<0>>

ZeroLeafWitness ==
    /\ call = "write_64"
    /\ allocs > 0
    /\ address = 0
    /\ arg = <<1>>
    /\ read_64(root, 0).iovec = <<1>>
    /\ read_64(root, 1).iovec = <<0>>

\* Right after a write, each address it covered reads as the word written
\* there, through read_64 and through a Read iop.
LastWriteState ==
    op = "Write"
        => \A k \in 1..Len(arg) :
              (address + (k - 1)) \in Covered(address, Len(arg))
                  => /\ read_64(root, address + (k - 1)).iovec = <<arg[k]>>
                     /\ iop(root, address + (k - 1), <<arg[k] + 1>>, "Read").iovec
                           = <<arg[k]>>

\* After a later write that does not cover it, an address covered by the
\* write before still reads as the word that write stored there.
LastWriteStep ==
    (op = "Write" /\ op' = "Write" /\ nops' = nops + 1)
        => \A k \in 1..Len(arg) :
              (/\ (address + (k - 1)) \in Covered(address, Len(arg))
               /\ (address + (k - 1)) \notin Covered(address', Len(arg')))
                  => read_64(root', address + (k - 1)).iovec = <<arg[k]>>

\* C12: last write wins: an address reads as the word stored by the most
\* recent write that covered it, whatever was written before.
LastWrite == []LastWriteState /\ [][LastWriteStep]_vars

\* C13: a request completes: its calls of run_op visit levels 1, 2, .. no
\* deeper than max_depth, and a call is repeated on the same level at most
\* once, when the node it met was Nothing and is no longer Nothing for the
\* repeated call.
Completes ==
    nops > 0
        => /\ ok
           /\ Len(steps) >= 1
           /\ steps[1].level = 1
           /\ \A i \in 1..Len(steps) : steps[i].level \in 1..max_depth
           /\ \A l \in 1..max_depth :
                 Cardinality({i \in 1..Len(steps) : steps[i].level = l}) <= 2
           /\ \A i \in 1..(Len(steps) - 1) :
                 \/ steps[i + 1].level = steps[i].level + 1
                 \/ /\ steps[i + 1].level = steps[i].level
                    /\ steps[i].tag = "Nothing"
                    /\ steps[i + 1].tag # "Nothing"
           /\ allocs = Cardinality({i \in 1..(Len(steps) - 1) :
                            steps[i + 1].level = steps[i].level})

CompletesWitness ==
    /\ nops = 2
    /\ op = "Write"
    /\ allocs = 2
    /\ Len(path) = max_depth - 2

\* C14: write_64(a, x) leaves the tree a Write iop at a with the buffer
\* <<x>> leaves, and read_64(a) returns the word a Read iop at a leaves in
\* a one-element buffer that held 0.
WordWrappers ==
    [][/\ (call' = "write_64" /\ nops' = nops + 1)
            => root' = iop(root, address', <<arg'[1]>>, "Write").node
       /\ (call' = "read_64" /\ nops' = nops + 1)
            => /\ ret' = <<iop(root, address', <<0>>, "Read").iovec[1]>>
               /\ root' = iop(root, address', <<0>>, "Read").node]_vars

WordWrappersWitness ==
    /\ call = "read_64"
    /\ nops = 2
    /\ ret = <<1>>
    /\ final_idx(address) = 1

\* C15: a Read iop whose traversal ends at a Nothing node, the root or a
\* node below it, leaves every element of the caller's buffer as it was.
AbsentReadKeepsBuffer ==
    [][(/\ call' = "iop"
        /\ op' = "Read"
        /\ nops' = nops + 1
        /\ ~Reaches(root, address', 1))
          => /\ steps'[Len(steps')].tag = "Nothing"
             /\ iovec' = arg']_vars

AbsentReadKeepsBufferWitness ==
    /\ call = "iop"
    /\ op = "Read"
    /\ root.tag = "Next"
    /\ Len(steps) > 1
    /\ steps[Len(steps)].tag = "Nothing"
    /\ arg = <<1, 2>>
    /\ iovec = <<1, 2>>

\* C16: a Write of n words at leaf offset o changes words o .. o + n - 1 of
\* the leaf its traversal reaches and no other word of any leaf, and makes
\* nodes only where the path to that leaf had Nothing.
WriteFrame ==
    [][(op' = "Write" /\ nops' = nops + 1)
          => /\ Framed(root, root', address', Len(arg'), 1)
             /\ Reaches(root', address', 1)]_vars

WriteFrameWitness ==
    /\ nops = 2
    /\ op = "Write"
    /\ allocs = 0
    /\ final_idx(address) = 1
    /\ arg = <<0>>
    /\ LeafOf(root, address, 1).mem[1] = 1
    /\ LeafOf(root, address, 1).mem[2] = 0

\* C17: a request that crosses the end of its leaf is cut short without an
\* error: a Write stores the first leaf_size - o words of the buffer in the
\* leaf and touches nothing else, a Read sets the first leaf_size - o
\* elements of the buffer and leaves the others as they were.
Truncates ==
    [][(nops' = nops + 1 /\ ~Fits(address', Len(arg')))
          => LET fin == final_idx(address')
                 room == Shl1(mem_bits) - fin
             IN  /\ ok'
                 /\ Len(iovec') = Len(arg')
                 /\ op' = "Write"
                      => /\ Reaches(root', address', 1)
                         /\ \A k \in 1..room :
                               LeafOf(root', address', 1).mem[fin + k] = arg'[k]
                         /\ Framed(root, root', address', room, 1)
                 /\ op' = "Read"
                      => /\ root' = root
                         /\ Reaches(root, address', 1)
                              => \A k \in 1..Len(arg') :
                                    iovec'[k] =
                                        IF k <= room
                                        THEN LeafOf(root, address', 1).mem[fin + k]
                                        ELSE arg'[k]]_vars

TruncatesWitness ==
    /\ call = "iop"
    /\ op = "Read"
    /\ final_idx(address) = Shl1(mem_bits) - 1
    /\ arg = <<1, 2>>
    /\ iovec = <<2, 2>>
    /\ LeafOf(root, address, 1).tag = "Memory"

\* C18: no operation fails at run time: in every call of run_op the shift
\* is within 0 .. width - 1, the child index is below the number of children
\* of the Next node indexed, the leaf offset is below the length of the
\* leaf, and a node is replaced only while no borrow of it is held.
NoPanic ==
    nops > 0
        => /\ ok
           /\ \A i \in 1..Len(steps) :
                 LET s == steps[i]
                 IN  /\ shift(s.level) \in 0..(WordBits - 1)
                     /\ s.tag = "Next" => level_idx(address, s.level) < s.size
                     /\ s.tag = "Memory" => final_idx(address) < s.size
                     /\ (s.tag = "Nothing" /\ op = "Write")
                          => s.level \notin replace_borrows(s.level)

NoPanicWitness ==
    /\ op = "Write"
    /\ address = Shl1(WordBits) - 1
    /\ allocs = max_depth - 1
    /\ Len(arg) = MaxLen
    /\ ok

====
